---- MODULE Spec2Model ----
(***************************************************************************)
(* State-machine model of the STEMMA soil moisture sensor driver           *)
(* (src/src/lib.rs, src/src/error.rs).                                     *)
(*                                                                         *)
(* The driver state is the configuration held by SoilSensor (unit,         *)
(* temp_delay, moisture_delay, address).  An operation (temperature,       *)
(* moisture, read, blocking or async) is a sequence of calls on the two    *)
(* external collaborators, the bus and the delay; each such call is one    *)
(* step of the model, and the outcome of a bus call (success or failure,   *)
(* and the bytes a successful read delivers) is chosen by the environment. *)
(* log records the calls the running (or last finished) operation made,    *)
(* as a recording transport / delay stub would; it is emptied when an      *)
(* operation starts and when a setter hands back a reconfigured driver.    *)
(***************************************************************************)
EXTENDS Integers, Sequences, FiniteSets, TLC

VARIABLES
    unit,            \* SoilSensor.unit
    temp_delay,      \* SoilSensor.temp_delay (ns)
    moisture_delay,  \* SoilSensor.moisture_delay (ns)
    address,         \* SoilSensor.address (u8)
    mode,            \* variant of the running / last operation: "none", "blocking", "async"
    op,              \* the running / last public operation: "none", "temperature", "moisture", "read"
    callee,          \* the measurement whose transaction is running / ran last: "none", "temperature", "moisture"
    pc,              \* next call of i2c_read: "write", "delay", "read"; "delaying" inside delay_ns;
                     \* "idle" when no operation runs
    bytes,           \* i2c_read argument: the register pointer
    buflen,          \* i2c_read argument: buffer.len()
    delay_ns,        \* i2c_read argument: the settling delay
    buffer,          \* contents of the response buffer
    raw,             \* temperature(): the decoded i32 (before the cast to f32), or NoRaw
    temp_value,      \* read(): the temperature field already evaluated, or NoValue
    log,             \* calls made on the bus and the delay by the running / last operation
    result,          \* what the last finished operation returned
    last_call,       \* the last public function called on the driver, with its arguments
    other_steps      \* steps another task of the same thread took while the operation ran

vars == <<unit, temp_delay, moisture_delay, address, mode, op, callee, pc,
          bytes, buflen, delay_ns, buffer, raw, temp_value, log, result, last_call,
          other_steps>>

config == <<unit, temp_delay, moisture_delay, address>>
frame  == <<mode, op, callee, pc, bytes, buflen, delay_ns, buffer, raw, temp_value>>

----------------------------------------------------------------------------
(* Program constants *)

DefaultAddress       == 54         \* 0x36
DefaultTempDelay     == 125000
DefaultMoistureDelay == 5000000

TemperatureRegister == <<0, 4>>    \* [0x00, 0x04]
MoistureRegister    == <<15, 16>>  \* [0x0F, 0x10]
TemperatureBufLen   == 4
MoistureBufLen      == 2

TemperatureUnit == {"Celsius", "Fahrenheit"}

(* SoilMoistureSensorError *)
SoilMoistureSensorError == {"WriteReadI2CError", "WriteI2CError", "ReadI2CError"}

----------------------------------------------------------------------------
(* Inputs the environment may supply *)

\* u8 arguments of with_address
AddressValues == {0, 16, 255}

\* u32 arguments of the delay setters (ns); the delays are only assigned and
\* passed on, never computed with, so values below 2^31 stand for all of u32
DelayValues == {0, 125000, 7000}

\* 4-byte responses of the temperature register
TemperatureResponses ==
    { <<0, 0, 0, 0>>,         \* 0
      <<0, 0, 39, 16>>,       \* 10000
      <<1, 2, 3, 4>>,         \* 0x01020304
      <<0, 0, 0, 128>>,       \* 128
      <<128, 0, 0, 0>>,       \* i32::MIN
      <<127, 255, 255, 255>>, \* i32::MAX
      <<255, 255, 255, 255>>, \* -1
      <<255, 255, 216, 240>>  \* -10000
    }

\* bytes of the 2-byte responses of the moisture register
MoistureByteValues == {0, 3, 232, 255}
MoistureResponses == { <<b0, b1>> : b0 \in MoistureByteValues, b1 \in MoistureByteValues }

Modes == {"blocking", "async"}

NoRaw   == "NoRaw"
NoValue == [kind |-> "NoValue"]
NoResult == [kind |-> "none"]

----------------------------------------------------------------------------
(* Recorded calls *)

WriteCall(addr, bs, ok) == [call |-> "write", addr |-> addr, bytes |-> bs, ok |-> ok]
DelayCall(ns)           == [call |-> "delay", ns |-> ns]
ReadCall(addr, len, ok, data) ==
    [call |-> "read", addr |-> addr, len |-> len, ok |-> ok, data |-> data]

\* a call of a public function; before is the address the driver had when it was called
Called(name, args) == [name |-> name, args |-> args, before |-> address]

Ok(v)  == [kind |-> "Ok", value |-> v]
Err(e) == [kind |-> "Err", err |-> e]

----------------------------------------------------------------------------
(* Integer decoding of the response buffer *)

\* variant: the buffer read least significant byte first (from_le_bytes)
i32_from_le_bytes(b) ==
    LET top == IF b[4] >= 128 THEN b[4] - 256 ELSE b[4]
    IN  top * 16777216 + b[3] * 65536 + b[2] * 256 + b[1]

\* i32::from_be_bytes: two's complement, buffer[1] most significant
i32_from_be_bytes(b) ==
    LET top == IF b[1] >= 128 THEN b[1] - 256 ELSE b[1]
    IN  top * 16777216 + b[2] * 65536 + b[3] * 256 + b[4]

\* variant: the buffer read least significant byte first (from_le_bytes)
u16_from_le_bytes(b) == b[2] * 256 + b[1]

\* u16::from_be_bytes: unsigned, buffer[1] most significant
u16_from_be_bytes(b) == b[1] * 256 + b[2]

----------------------------------------------------------------------------
(* f32 arithmetic.  A finite f32 is [m, e] standing for m * 2^e, kept      *)
(* canonical: m odd, or m = 0 and e = 0; |m| < 2^24.  Every operation      *)
(* rounds to nearest, ties to even (IEEE 754 binary32).  The exponent      *)
(* range is not modelled: no value of the driver overflows or is           *)
(* subnormal (magnitudes are 0 or within [2^-16, 2^17]).                   *)

RECURSIVE Pow2(_)
Pow2(n) == IF n = 0 THEN 1 ELSE 2 * Pow2(n - 1)

RECURSIVE BitLen(_)
BitLen(n) == IF n = 0 THEN 0 ELSE 1 + BitLen(n \div 2)

Abs(x) == IF x < 0 THEN -x ELSE x
Sgn(x) == IF x < 0 THEN -1 ELSE 1
Min(a, b) == IF a < b THEN a ELSE b

RECURSIVE F32Norm(_, _)
F32Norm(m, e) ==
    IF m = 0 THEN [m |-> 0, e |-> 0]
    ELSE IF m % 2 = 0 THEN F32Norm(m \div 2, e + 1)
    ELSE [m |-> m, e |-> e]

\* round the non-negative integer n (times 2^e, with sign sg) to 24 significant bits
F32Round(sg, n, e) ==
    LET k == BitLen(n)
    IN  IF k <= 24 THEN F32Norm(sg * n, e)
        ELSE LET s    == k - 24
                 q    == n \div Pow2(s)
                 r    == n % Pow2(s)
                 half == Pow2(s - 1)
                 up   == r > half \/ (r = half /\ q % 2 = 1)
             IN  F32Norm(sg * (IF up THEN q + 1 ELSE q), e + s)

\* `x as f32` for an i32 x
i32_as_f32(x) ==
    IF x = -2147483647 - 1 THEN [m |-> -1, e |-> 31]
    ELSE F32Round(Sgn(x), Abs(x), 0)

\* a * b
F32Mul(a, b) ==
    LET sg == Sgn(a.m) * Sgn(b.m)
        ma == Abs(a.m)
        mb == Abs(b.m)
        ah == ma \div 4096
        al == ma % 4096
        bh == mb \div 4096
        bl == mb % 4096
        p0 == al * bl
        p1 == ah * bl + al * bh
        p2 == ah * bh
        l0 == p0 + (p1 % 4096) * 4096
        lo == l0 % 16777216
        hi == p2 + (p1 \div 4096) + (l0 \div 16777216)
        \* the exact product of the significands is hi * 2^24 + lo
        k  == BitLen(hi)
        q  == hi * Pow2(24 - k) + (lo \div Pow2(k))
        r  == lo % Pow2(k)
        half == Pow2(k - 1)
        up == r > half \/ (r = half /\ q % 2 = 1)
    IN  IF hi = 0 THEN F32Norm(sg * lo, a.e + b.e)
        ELSE F32Norm(sg * (IF up THEN q + 1 ELSE q), a.e + b.e + k)

\* a + b
F32Add(a, b) ==
    IF a.m = 0 THEN b
    ELSE IF b.m = 0 THEN a
    ELSE
    LET ta  == a.e + BitLen(Abs(a.m))
        tb  == b.e + BitLen(Abs(b.m))
        big == IF ta >= tb THEN a ELSE b
        sml == IF ta >= tb THEN b ELSE a
        tB  == IF ta >= tb THEN ta ELSE tb
        \* all bits of sml below 2^L only matter as a sticky bit
        lo  == Min(a.e, b.e)
        E   == IF sml.e >= tB - 27 THEN lo ELSE tB - 27
        B   == big.m * Pow2(big.e - E)
        S   == IF sml.e >= E
               THEN sml.m * Pow2(sml.e - E)
               ELSE LET sh  == E - sml.e
                        mag == Abs(sml.m)
                        fl  == IF sh >= 24 THEN 0 ELSE mag \div Pow2(sh)
                        jam == IF fl % 2 = 0 THEN fl + 1 ELSE fl
                    IN  Sgn(sml.m) * jam
        sum == B + S
    IN  F32Round(Sgn(sum), Abs(sum), E)

\* const TEMP_C_CONSTANT: f32 = 0.000015258789: the nearest f32 is 2^-16
TEMP_C_CONSTANT == [m |-> 1, e |-> -16]
\* the f32 literal 1.8: 0x3FE66666 = 15099494 * 2^-23
F32_1_8 == [m |-> 7549747, e |-> -22]

\* variant: the constant written out as the literal 0.0000274658 instead of
\* computed; the nearest f32 is 15099483 * 2^-39
TEMP_F_CONSTANT_literal == [m |-> 15099483, e |-> -39]

\* const TEMP_F_CONSTANT: f32 = TEMP_C_CONSTANT * 1.8
TEMP_F_CONSTANT == F32Mul(TEMP_C_CONSTANT, F32_1_8)
\* const TEMP_F_CONSTANT_SUM: f32 = 32.0
TEMP_F_CONSTANT_SUM == [m |-> 1, e |-> 5]


\* variant: the two arms of the match exchanged
ConvertTemperature_arms_exchanged(u, rawf) ==
    IF u = "Fahrenheit"
    THEN F32Mul(rawf, TEMP_C_CONSTANT)
    ELSE F32Add(F32Mul(rawf, TEMP_F_CONSTANT), TEMP_F_CONSTANT_SUM)

\* the match on self.unit in temperature()
ConvertTemperature(u, rawf) ==
    IF u = "Celsius"
    THEN F32Mul(rawf, TEMP_C_CONSTANT)
    ELSE F32Add(F32Mul(rawf, TEMP_F_CONSTANT), TEMP_F_CONSTANT_SUM)

----------------------------------------------------------------------------
(* Construction *)

\* variant: the two default delays exchanged
new_delays_exchanged ==
    /\ unit = "Fahrenheit"
    /\ temp_delay = DefaultMoistureDelay
    /\ moisture_delay = DefaultTempDelay
    /\ address = DefaultAddress

\* SoilSensor::new
new ==
    /\ unit = "Fahrenheit"
    /\ temp_delay = DefaultTempDelay
    /\ moisture_delay = DefaultMoistureDelay
    /\ address = DefaultAddress

Init ==
    /\ new
    /\ mode = "none"
    /\ op = "none"
    /\ callee = "none"
    /\ pc = "idle"
    /\ bytes = <<>>
    /\ buflen = 0
    /\ delay_ns = 0
    /\ buffer = <<>>
    /\ raw = NoRaw
    /\ temp_value = NoValue
    /\ log = <<>>
    /\ result = NoResult
    /\ last_call = [name |-> "new", args |-> <<>>, before |-> DefaultAddress]
    /\ other_steps = 0

----------------------------------------------------------------------------
(* Configuration setters.  They take self by value, so they can only run   *)
(* while no operation borrows the driver (pc = "idle").  The driver they   *)
(* return has made no call yet: the record of the previous operation is    *)
(* dropped.                                                                *)

Fresh ==
    /\ mode' = "none"
    /\ op' = "none"
    /\ callee' = "none"
    /\ pc' = "idle"
    /\ bytes' = <<>>
    /\ buflen' = 0
    /\ delay_ns' = 0
    /\ buffer' = <<>>
    /\ raw' = NoRaw
    /\ temp_value' = NoValue
    /\ log' = <<>>
    /\ result' = NoResult
    /\ other_steps' = 0

\* self.address += n on a u8 (the sums of the code stay below 256)
AddU8(a, n) == (a + n) % 256

\* variant: the pin offsets added to the current address instead of 0x36
AddressFromPins_cumulative(a0, a1) ==
    LET base == address
        s0   == IF a0 THEN AddU8(base, 1) ELSE base
        s1   == IF a1 THEN AddU8(s0, 2) ELSE s0
    IN  s1

\* the body of with_address_pins: 0x36, += 1 if a0, += 2 if a1
AddressFromPins(a0, a1) ==
    LET base == DefaultAddress
        s0   == IF a0 THEN AddU8(base, 1) ELSE base
        s1   == IF a1 THEN AddU8(s0, 2) ELSE s0
    IN  s1

with_units(u) ==
    /\ pc = "idle"
    /\ last_call' = Called("with_units", <<u>>)
    /\ unit' = u
    /\ UNCHANGED <<temp_delay, moisture_delay, address>>
    /\ Fresh

with_address_pins(a0, a1) ==
    /\ pc = "idle"
    /\ last_call' = Called("with_address_pins", <<a0, a1>>)
    /\ address' = AddressFromPins(a0, a1)
    /\ UNCHANGED <<unit, temp_delay, moisture_delay>>
    /\ Fresh

with_address(a) ==
    /\ pc = "idle"
    /\ last_call' = Called("with_address", <<a>>)
    /\ address' = a
    /\ UNCHANGED <<unit, temp_delay, moisture_delay>>
    /\ Fresh

with_delay(temp, moisture) ==
    /\ pc = "idle"
    /\ last_call' = Called("with_delay", <<temp, moisture>>)
    /\ temp_delay' = temp
    /\ moisture_delay' = moisture
    /\ UNCHANGED <<unit, address>>
    /\ Fresh

with_temperature_delay(temp) ==
    /\ pc = "idle"
    /\ last_call' = Called("with_temperature_delay", <<temp>>)
    /\ temp_delay' = temp
    /\ UNCHANGED <<unit, moisture_delay, address>>
    /\ Fresh

with_moisture_delay(moisture) ==
    /\ pc = "idle"
    /\ last_call' = Called("with_moisture_delay", <<moisture>>)
    /\ moisture_delay' = moisture
    /\ UNCHANGED <<unit, temp_delay, address>>
    /\ Fresh

(* The async setters: the same bodies, no suspension point inside. *)

with_units_async(u) ==
    /\ pc = "idle"
    /\ last_call' = Called("with_units_async", <<u>>)
    /\ unit' = u
    /\ UNCHANGED <<temp_delay, moisture_delay, address>>
    /\ Fresh

with_address_pins_async(a0, a1) ==
    /\ pc = "idle"
    /\ last_call' = Called("with_address_pins_async", <<a0, a1>>)
    /\ address' = AddressFromPins(a0, a1)
    /\ UNCHANGED <<unit, temp_delay, moisture_delay>>
    /\ Fresh

with_address_async(a) ==
    /\ pc = "idle"
    /\ last_call' = Called("with_address_async", <<a>>)
    /\ address' = a
    /\ UNCHANGED <<unit, temp_delay, moisture_delay>>
    /\ Fresh

with_delay_async(temp, moisture) ==
    /\ pc = "idle"
    /\ last_call' = Called("with_delay_async", <<temp, moisture>>)
    /\ temp_delay' = temp
    /\ moisture_delay' = moisture
    /\ UNCHANGED <<unit, address>>
    /\ Fresh


\* variant: the body of with_delay_async pasted, both delays assigned
with_temperature_delay_async_both(temp) ==
    /\ pc = "idle"
    /\ last_call' = Called("with_temperature_delay_async", <<temp>>)
    /\ temp_delay' = temp
    /\ moisture_delay' = temp
    /\ UNCHANGED <<unit, address>>
    /\ Fresh

with_temperature_delay_async(temp) ==
    /\ pc = "idle"
    /\ last_call' = Called("with_temperature_delay_async", <<temp>>)
    /\ temp_delay' = temp
    /\ UNCHANGED <<unit, moisture_delay, address>>
    /\ Fresh

with_moisture_delay_async(moisture) ==
    /\ pc = "idle"
    /\ last_call' = Called("with_moisture_delay_async", <<moisture>>)
    /\ moisture_delay' = moisture
    /\ UNCHANGED <<unit, temp_delay, address>>
    /\ Fresh

----------------------------------------------------------------------------
(* The setters as functions from configuration to configuration, to        *)
(* compare the two orders of a pair of calls.                              *)

\* the configuration the driver holds
Config == [unit |-> unit, temp_delay |-> temp_delay,
           moisture_delay |-> moisture_delay, address |-> address]

\* the name of the blocking setter a setter name stands for
BaseName(name) ==
    CASE name = "with_units_async"             -> "with_units"
      [] name = "with_address_pins_async"      -> "with_address_pins"
      [] name = "with_address_async"           -> "with_address"
      [] name = "with_delay_async"             -> "with_delay"
      [] name = "with_temperature_delay_async" -> "with_temperature_delay"
      [] name = "with_moisture_delay_async"    -> "with_moisture_delay"
      [] OTHER                                 -> name

\* the assignments of each setter body
SetterApply(c, name, args) ==
    LET n == BaseName(name)
    IN  CASE n = "with_units"             -> [c EXCEPT !.unit = args[1]]
          [] n = "with_address_pins"      ->
                 [c EXCEPT !.address =
                     LET s0 == IF args[1] THEN AddU8(DefaultAddress, 1) ELSE DefaultAddress
                     IN  IF args[2] THEN AddU8(s0, 2) ELSE s0]
          [] n = "with_address"           -> [c EXCEPT !.address = args[1]]
          [] n = "with_delay"             ->
                 [c EXCEPT !.temp_delay = args[1], !.moisture_delay = args[2]]
          [] n = "with_temperature_delay" -> [c EXCEPT !.temp_delay = args[1]]
          [] n = "with_moisture_delay"    -> [c EXCEPT !.moisture_delay = args[1]]
          [] OTHER                        -> c

\* the fields each setter body assigns
SetterFields(name) ==
    LET n == BaseName(name)
    IN  CASE n = "with_units"             -> {"unit"}
          [] n = "with_address_pins"      -> {"address"}
          [] n = "with_address"           -> {"address"}
          [] n = "with_delay"             -> {"temp_delay", "moisture_delay"}
          [] n = "with_temperature_delay" -> {"temp_delay"}
          [] n = "with_moisture_delay"    -> {"moisture_delay"}
          [] OTHER                        -> {}

\* the setter calls the environment may make
SetterCalls ==
    { [name |-> "with_units", args |-> <<u>>] : u \in TemperatureUnit }
    \cup { [name |-> "with_address_pins", args |-> <<a0, a1>>] : a0 \in BOOLEAN, a1 \in BOOLEAN }
    \cup { [name |-> "with_address", args |-> <<a>>] : a \in AddressValues }
    \cup { [name |-> "with_delay", args |-> <<t, mo>>] : t \in DelayValues, mo \in DelayValues }
    \cup { [name |-> "with_temperature_delay", args |-> <<t>>] : t \in DelayValues }
    \cup { [name |-> "with_moisture_delay", args |-> <<mo>>] : mo \in DelayValues }

\* calling a then b leaves the configuration that calling b then a leaves
Commute(c, a, b) ==
    SetterApply(SetterApply(c, a.name, a.args), b.name, b.args)
        = SetterApply(SetterApply(c, b.name, b.args), a.name, a.args)

----------------------------------------------------------------------------
(* The read operations.  Starting one evaluates the arguments of its       *)
(* first i2c_read call; the calls on the bus and the delay follow one per  *)
(* step.                                                                   *)

Zeros(n) == [i \in 1..n |-> 0]

\* temperature(): let mut buffer = [0; 4]; self.i2c_read(&[0x00, 0x04], &mut buffer, self.temp_delay)
CallTemperature ==
    /\ callee' = "temperature"
    /\ bytes' = TemperatureRegister
    /\ buflen' = TemperatureBufLen
    /\ buffer' = Zeros(TemperatureBufLen)
    /\ delay_ns' = temp_delay
    /\ pc' = "write"

\* variant: moisture() passing the temperature delay
CallMoisture_temp_delay ==
    /\ callee' = "moisture"
    /\ bytes' = MoistureRegister
    /\ buflen' = MoistureBufLen
    /\ buffer' = Zeros(MoistureBufLen)
    /\ delay_ns' = temp_delay
    /\ pc' = "write"

\* moisture(): let mut buffer = [0; 2]; self.i2c_read(&[0x0F, 0x10], &mut buffer, self.moisture_delay)
CallMoisture ==
    /\ callee' = "moisture"
    /\ bytes' = MoistureRegister
    /\ buflen' = MoistureBufLen
    /\ buffer' = Zeros(MoistureBufLen)
    /\ delay_ns' = moisture_delay
    /\ pc' = "write"

OpName(m, o) == IF m = "async" THEN o \o "_async" ELSE o


\* variant: an operation started while another still holds the driver
Begin_reentrant(m, o) ==
    /\ last_call' = Called(OpName(m, o), <<>>)
    /\ mode' = m
    /\ op' = o
    /\ raw' = NoRaw
    /\ temp_value' = NoValue
    /\ log' = <<>>
    /\ result' = NoResult
    /\ other_steps' = 0
    /\ UNCHANGED config

Begin(m, o) ==
    /\ pc = "idle"
    /\ last_call' = Called(OpName(m, o), <<>>)
    /\ mode' = m
    /\ op' = o
    /\ raw' = NoRaw
    /\ temp_value' = NoValue
    /\ log' = <<>>
    /\ result' = NoResult
    /\ other_steps' = 0
    /\ UNCHANGED config

temperature == Begin("blocking", "temperature") /\ CallTemperature
moisture    == Begin("blocking", "moisture") /\ CallMoisture
\* read(): the temperature field of Reading is evaluated first
read        == Begin("blocking", "read") /\ CallTemperature

temperature_async == Begin("async", "temperature") /\ CallTemperature
moisture_async    == Begin("async", "moisture") /\ CallMoisture
read_async        == Begin("async", "read") /\ CallTemperature

\* variant: read() going on to the moisture field after a failed temperature()
Fail_read_continues(e) ==
    IF op = "read" /\ callee = "temperature"
    THEN /\ callee' = "moisture"
         /\ bytes' = MoistureRegister
         /\ buflen' = MoistureBufLen
         /\ buffer' = Zeros(MoistureBufLen)
         /\ delay_ns' = moisture_delay
         /\ pc' = "write"
         /\ UNCHANGED <<raw, temp_value, result>>
    ELSE /\ result' = Err(e)
         /\ pc' = "idle"
         /\ UNCHANGED <<callee, bytes, buflen, delay_ns, buffer, raw, temp_value>>


\* variant: a failed bus call answered by starting the transaction again
Fail_retries(e) ==
    /\ pc' = "write"
    /\ UNCHANGED <<callee, bytes, buflen, delay_ns, buffer, raw, temp_value, result>>

\* variant: read() returning the temperature it has with a moisture of 0
\* when the moisture transaction fails
Fail_partial_reading(e) ==
    /\ result' = IF op = "read" /\ callee = "moisture"
                 THEN Ok([temperature |-> temp_value, moisture |-> 0])
                 ELSE Err(e)
    /\ pc' = "idle"
    /\ UNCHANGED <<callee, bytes, buflen, delay_ns, buffer, raw, temp_value>>

\* variant: every bus failure mapped to WriteReadI2CError
Fail_composite(e) ==
    /\ result' = Err("WriteReadI2CError")
    /\ pc' = "idle"
    /\ UNCHANGED <<callee, bytes, buflen, delay_ns, buffer, raw, temp_value>>

\* an error leaves i2c_read and, through the ? of each caller, the operation
Fail(e) ==
    /\ result' = Err(e)
    /\ pc' = "idle"
    /\ UNCHANGED <<callee, bytes, buflen, delay_ns, buffer, raw, temp_value>>

\* variant: the result of the bus write dropped instead of propagated with ?
BusWrite_error_dropped(m, ok) ==
    /\ pc = "write"
    /\ mode = m
    /\ log' = Append(log, WriteCall(address, bytes, ok))
    /\ pc' = "delay"
    /\ UNCHANGED <<callee, bytes, buflen, delay_ns, buffer, raw, temp_value, result>>
    /\ UNCHANGED <<config, mode, op, last_call, other_steps>>

\* self.i2c.write(self.address, bytes).map_err(|_| WriteI2CError)?
BusWrite(m, ok) ==
    /\ pc = "write"
    /\ mode = m
    /\ log' = Append(log, WriteCall(address, bytes, ok))
    /\ IF ok
       THEN /\ pc' = "delay"
            /\ UNCHANGED <<callee, bytes, buflen, delay_ns, buffer, raw, temp_value, result>>
       ELSE Fail("WriteI2CError")
    /\ UNCHANGED <<config, mode, op, last_call, other_steps>>

\* variant: the settling delay left out
Delay_omitted(m) ==
    /\ pc = "delay"
    /\ mode = m
    /\ pc' = "read"
    /\ UNCHANGED <<config, mode, op, callee, bytes, buflen, delay_ns, buffer, raw,
                   temp_value, log, result, last_call, other_steps>>

\* self.delay.delay_ns(delay_ns) is called.  D is the blocking DelayNs of
\* embedded_hal in both variants, and the call is not awaited: it returns
\* when the time has passed.
Delay(m) ==
    /\ pc = "delay"
    /\ mode = m
    /\ log' = Append(log, DelayCall(delay_ns))
    /\ pc' = "delaying"
    /\ UNCHANGED <<config, mode, op, callee, bytes, buflen, delay_ns, buffer, raw,
                   temp_value, result, last_call, other_steps>>

\* self.delay.delay_ns(delay_ns) returns
DelayDone(m) ==
    /\ pc = "delaying"
    /\ mode = m
    /\ pc' = "read"
    /\ UNCHANGED <<config, mode, op, callee, bytes, buflen, delay_ns, buffer, raw,
                   temp_value, log, result, last_call, other_steps>>

\* the rest of temperature() after a successful i2c_read, and what its caller does with it
ReturnTemperature(buf) ==
    LET r == i32_from_be_bytes(buf)
        v == ConvertTemperature(unit, i32_as_f32(r))
    IN  /\ raw' = r
        /\ IF op = "read"
           THEN \* read(): the moisture field is evaluated next
                /\ temp_value' = v
                /\ CallMoisture
                /\ UNCHANGED result
           ELSE /\ result' = Ok(v)
                /\ buffer' = buf
                /\ pc' = "idle"
                /\ UNCHANGED <<callee, bytes, buflen, delay_ns, temp_value>>

\* the rest of moisture() after a successful i2c_read, and what its caller does with it
ReturnMoisture(buf) ==
    LET v == u16_from_be_bytes(buf)
    IN  /\ result' = IF op = "read"
                     THEN Ok([temperature |-> temp_value, moisture |-> v])
                     ELSE Ok(v)
        /\ buffer' = buf
        /\ pc' = "idle"
        /\ UNCHANGED <<callee, bytes, buflen, delay_ns, raw, temp_value>>

\* variant: a failed bus read mapped to WriteI2CError
BusRead_write_kind(m, ok, data) ==
    /\ pc = "read"
    /\ mode = m
    /\ IF ok
       THEN /\ Len(data) = buflen
            /\ log' = Append(log, ReadCall(address, buflen, TRUE, data))
            /\ IF callee = "temperature"
               THEN ReturnTemperature(data)
               ELSE ReturnMoisture(data)
       ELSE /\ data = <<>>
            /\ log' = Append(log, ReadCall(address, buflen, FALSE, data))
            /\ Fail("WriteI2CError")
    /\ UNCHANGED <<config, mode, op, last_call, other_steps>>

\* variant: the bus read addressed to the default address instead of self.address
BusRead_default_address(m, ok, data) ==
    /\ pc = "read"
    /\ mode = m
    /\ IF ok
       THEN /\ Len(data) = buflen
            /\ log' = Append(log, ReadCall(DefaultAddress, buflen, TRUE, data))
            /\ IF callee = "temperature"
               THEN ReturnTemperature(data)
               ELSE ReturnMoisture(data)
       ELSE /\ data = <<>>
            /\ log' = Append(log, ReadCall(DefaultAddress, buflen, FALSE, data))
            /\ Fail("ReadI2CError")
    /\ UNCHANGED <<config, mode, op, last_call, other_steps>>

\* self.i2c.read(self.address, buffer).map_err(|_| ReadI2CError)
BusRead(m, ok, data) ==
    /\ pc = "read"
    /\ mode = m
    /\ IF ok
       THEN /\ Len(data) = buflen
            /\ log' = Append(log, ReadCall(address, buflen, TRUE, data))
            /\ IF callee = "temperature"
               THEN ReturnTemperature(data)
               ELSE ReturnMoisture(data)
       ELSE /\ data = <<>>
            /\ log' = Append(log, ReadCall(address, buflen, FALSE, data))
            /\ Fail("ReadI2CError")
    /\ UNCHANGED <<config, mode, op, last_call, other_steps>>

AllResponses == TemperatureResponses \cup MoistureResponses \cup {<<>>}

\* one step of the blocking i2c_read
i2c_read ==
    \/ \E ok \in BOOLEAN : BusWrite("blocking", ok)
    \/ Delay("blocking")
    \/ DelayDone("blocking")
    \/ \E ok \in BOOLEAN, data \in AllResponses : BusRead("blocking", ok, data)


\* variant: i2c_read_async mapping a failed bus read to WriteI2CError
i2c_read_async_write_kind ==
    \/ \E ok \in BOOLEAN : BusWrite("async", ok)
    \/ Delay("async")
    \/ DelayDone("async")
    \/ \E ok \in BOOLEAN, data \in AllResponses : BusRead_write_kind("async", ok, data)

\* one step of i2c_read_async
i2c_read_async ==
    \/ \E ok \in BOOLEAN : BusWrite("async", ok)
    \/ Delay("async")
    \/ DelayDone("async")
    \/ \E ok \in BOOLEAN, data \in AllResponses : BusRead("async", ok, data)

----------------------------------------------------------------------------
(* The blocking operations as functions of the configuration c and of what *)
(* the bus does: whether the write succeeds (wok), whether the read        *)
(* succeeds (rok) and the bytes it delivers (data).  Each gives the calls  *)
(* made, in order, and the value returned.                                 *)

\* i2c_read
RefTransaction(addr, reg, len, dly, o) ==
    IF ~o.wok
    THEN [calls |-> <<WriteCall(addr, reg, FALSE)>>, res |-> Err("WriteI2CError")]
    ELSE IF ~o.rok
    THEN [calls |-> <<WriteCall(addr, reg, TRUE), DelayCall(dly),
                      ReadCall(addr, len, FALSE, <<>>)>>,
          res |-> Err("ReadI2CError")]
    ELSE [calls |-> <<WriteCall(addr, reg, TRUE), DelayCall(dly),
                      ReadCall(addr, len, TRUE, o.data)>>,
          res |-> Ok(o.data)]

\* temperature
RefTemperature(c, o) ==
    LET t == RefTransaction(c.address, TemperatureRegister, TemperatureBufLen,
                            c.temp_delay, o)
    IN  IF t.res.kind = "Err" THEN t
        ELSE [calls |-> t.calls,
              res |-> Ok(ConvertTemperature(c.unit,
                             i32_as_f32(i32_from_be_bytes(t.res.value))))]

\* moisture
RefMoisture(c, o) ==
    LET t == RefTransaction(c.address, MoistureRegister, MoistureBufLen,
                            c.moisture_delay, o)
    IN  IF t.res.kind = "Err" THEN t
        ELSE [calls |-> t.calls, res |-> Ok(u16_from_be_bytes(t.res.value))]

\* read
RefRead(c, o1, o2) ==
    LET t == RefTemperature(c, o1)
    IN  IF t.res.kind = "Err" THEN t
        ELSE LET mo == RefMoisture(c, o2)
             IN  IF mo.res.kind = "Err"
                 THEN [calls |-> t.calls \o mo.calls, res |-> mo.res]
                 ELSE [calls |-> t.calls \o mo.calls,
                       res |-> Ok([temperature |-> t.res.value,
                                   moisture |-> mo.res.value])]

\* what the bus did in the k-th transaction of the logged operation
Outcome(k) ==
    LET b   == 3 * (k - 1)
        wok == Len(log) >= b + 1 /\ log[b + 1].call = "write" /\ log[b + 1].ok
        rok == Len(log) >= b + 3 /\ log[b + 3].call = "read" /\ log[b + 3].ok
    IN  [wok |-> wok, rok |-> rok, data |-> IF rok THEN log[b + 3].data ELSE <<>>]

----------------------------------------------------------------------------
(* The cooperative scheduler of the async variant runs one task at a time  *)
(* on the thread.  The task running an async operation gives the thread up *)
(* only at an .await that is pending: the bus write and the bus read of    *)
(* i2c_read_async.  Between them, and inside the synchronous delay_ns      *)
(* call, it keeps the thread.  A blocking operation keeps it throughout.   *)

MaxOtherSteps == 2

\* another task of the same thread takes a step
OtherTask ==
    /\ mode = "async"
    /\ pc \in {"write", "read"}
    /\ other_steps < MaxOtherSteps
    /\ other_steps' = other_steps + 1
    /\ UNCHANGED <<config, frame, log, result, last_call>>

----------------------------------------------------------------------------

Next ==
    \/ \E u \in TemperatureUnit : with_units(u)
    \/ \E a0 \in BOOLEAN, a1 \in BOOLEAN : with_address_pins(a0, a1)
    \/ \E a \in AddressValues : with_address(a)
    \/ \E t \in DelayValues, mo \in DelayValues : with_delay(t, mo)
    \/ \E t \in DelayValues : with_temperature_delay(t)
    \/ \E mo \in DelayValues : with_moisture_delay(mo)
    \/ \E u \in TemperatureUnit : with_units_async(u)
    \/ \E a0 \in BOOLEAN, a1 \in BOOLEAN : with_address_pins_async(a0, a1)
    \/ \E a \in AddressValues : with_address_async(a)
    \/ \E t \in DelayValues, mo \in DelayValues : with_delay_async(t, mo)
    \/ \E t \in DelayValues : with_temperature_delay_async(t)
    \/ \E mo \in DelayValues : with_moisture_delay_async(mo)
    \/ temperature
    \/ moisture
    \/ read
    \/ i2c_read
    \/ temperature_async
    \/ moisture_async
    \/ read_async
    \/ i2c_read_async
    \/ OtherTask

Spec == Init /\ [][Next]_vars

----------------------------------------------------------------------------
(* The temperature conversion on a wide range of responses: only the unit  *)
(* is configured and only temperature() / temperature_async() run, and the *)
(* bus answers with any combination of the bytes below.                    *)

ConvByte1 == {0, 1, 2, 127, 128, 129, 254, 255}
ConvByte2 == {0, 1, 128, 255}
ConvByte3 == {0, 39, 127, 216, 255}
ConvByte4 == {0, 1, 2, 16, 127, 128, 240, 255}

ConvResponses ==
    { <<b1, b2, b3, b4>> : b1 \in ConvByte1, b2 \in ConvByte2,
                           b3 \in ConvByte3, b4 \in ConvByte4 }

ConvNext ==
    \/ \E u \in TemperatureUnit : with_units(u)
    \/ temperature
    \/ temperature_async
    \/ \E m \in Modes, ok \in BOOLEAN : BusWrite(m, ok)
    \/ \E m \in Modes : Delay(m)
    \/ \E m \in Modes : DelayDone(m)
    \/ \E m \in Modes, ok \in BOOLEAN, data \in ConvResponses \cup {<<>>} : BusRead(m, ok, data)

SpecConv == Init /\ [][ConvNext]_vars

----------------------------------------------------------------------------
(* Properties *)

\* C1: a failed bus write is the last call of the operation (no delay and no
\* bus read follow it) and the operation has returned WriteI2CError.
C1_WriteFailureStops ==
    \A i \in 1..Len(log) :
        (log[i].call = "write" /\ ~log[i].ok) =>
            /\ i = Len(log)
            /\ pc = "idle"
            /\ result = Err("WriteI2CError")

\* an async read() on a reconfigured address whose moisture write failed
C1_Witness ==
    /\ mode = "async" /\ op = "read" /\ address = 255
    /\ Len(log) = 4
    /\ log[4] = WriteCall(255, MoistureRegister, FALSE)
    /\ result = Err("WriteI2CError")

\* C2: a failed bus read follows the successful write of its transaction and
\* makes the operation return ReadI2CError, not WriteI2CError.
C2_ReadFailureKind ==
    \A i \in 1..Len(log) :
        (log[i].call = "read" /\ ~log[i].ok) =>
            /\ i = Len(log)
            /\ i >= 3
            /\ log[i - 2].call = "write"
            /\ log[i - 2].ok
            /\ pc = "idle"
            /\ result = Err("ReadI2CError")

\* a temperature() whose write succeeded and whose read failed
C2_Witness ==
    /\ op = "temperature" /\ mode = "blocking"
    /\ Len(log) = 3
    /\ log[1].call = "write" /\ log[1].ok
    /\ log[3].call = "read" /\ ~log[3].ok
    /\ result = Err("ReadI2CError")

\* C3: the calls of every transaction come in the order write, delay, read:
\* the write carries the register pointer, exactly one delay follows a
\* successful write and lasts the delay_ns passed to the transaction, and a
\* read is only issued right after that delay.
C3_TransactionOrder ==
    /\ \A i \in 1..Len(log) :
        /\ (i % 3 = 1) => log[i].call = "write"
        /\ (i % 3 = 2) => /\ log[i].call = "delay"
                          /\ log[i - 1].call = "write"
                          /\ log[i - 1].ok
        /\ (i % 3 = 0) => /\ log[i].call = "read"
                          /\ log[i - 1].call = "delay"
                          /\ log[i - 2].call = "write"
                          /\ log[i - 2].ok
    /\ (pc = "delay") => (Len(log) > 0 /\ log[Len(log)] = WriteCall(address, bytes, TRUE))
    /\ (pc = "read") => (Len(log) > 0 /\ log[Len(log)] = DelayCall(delay_ns))
    /\ (pc = "write") => (Len(log) % 3 = 0)

\* a moisture_async() with a reconfigured delay that has made its three calls
C3_Witness ==
    /\ op = "moisture" /\ mode = "async" /\ pc = "idle"
    /\ moisture_delay = 7000
    /\ Len(log) = 3
    /\ log[1].call = "write" /\ log[2] = DelayCall(7000) /\ log[3].call = "read"

\* C4: a read() without a failing bus call has delayed exactly twice, first
\* for the configured temperature delay, before the temperature bus read,
\* then for the configured moisture delay, before the moisture bus read.
C4_ReadDelays ==
    (op = "read" /\ pc = "idle"
       /\ \A i \in 1..Len(log) : log[i].call \in {"write", "read"} => log[i].ok) =>
        LET delays == SelectSeq(log, LAMBDA c : c.call = "delay")
        IN  /\ result.kind = "Ok"
            /\ Len(delays) = 2
            /\ delays[1].ns = temp_delay
            /\ delays[2].ns = moisture_delay
            /\ Len(log) = 6
            /\ log[2] = DelayCall(temp_delay)
            /\ log[3].call = "read" /\ log[3].len = TemperatureBufLen
            /\ log[5] = DelayCall(moisture_delay)
            /\ log[6].call = "read" /\ log[6].len = MoistureBufLen

\* a successful read() after both delays were reconfigured
C4_Witness ==
    /\ op = "read" /\ pc = "idle" /\ result.kind = "Ok"
    /\ temp_delay = 7000 /\ moisture_delay = 0
    /\ Len(log) = 6
    /\ log[2] = DelayCall(7000) /\ log[5] = DelayCall(0)

\* C5: in read() the moisture transaction starts only after the temperature
\* transaction has succeeded; a failure of the temperature transaction is
\* the last call of read() and its error is what read() returns.
C5_ReadShortCircuit ==
    (op = "read") =>
        /\ \A i \in 1..Len(log) :
              (i <= 3) =>
                  /\ (log[i].call = "write") => log[i].bytes = TemperatureRegister
                  /\ (log[i].call = "read") => log[i].len = TemperatureBufLen
                  /\ (log[i].call \in {"write", "read"} /\ ~log[i].ok) =>
                        /\ Len(log) = i
                        /\ pc = "idle"
                        /\ callee = "temperature"
                        /\ result = Err(IF log[i].call = "write"
                                        THEN "WriteI2CError" ELSE "ReadI2CError")
        /\ (callee = "moisture" \/ Len(log) >= 4) =>
              /\ Len(log) >= 3
              /\ log[1].call = "write" /\ log[1].ok
              /\ log[2].call = "delay"
              /\ log[3].call = "read" /\ log[3].ok
        /\ \A i \in 1..Len(log) :
              (i >= 4 /\ log[i].call = "write") => log[i].bytes = MoistureRegister

\* a read() whose temperature bus read failed: three calls, none for moisture
C5_Witness ==
    /\ op = "read" /\ pc = "idle"
    /\ Len(log) = 3
    /\ log[3].call = "read" /\ ~log[3].ok
    /\ result = Err("ReadI2CError")

\* C6: right after with_address_pins(a0, a1) (or its async twin) the address
\* is 0x36 + (1 if a0) + (2 if a1), whatever it was before; (true, true)
\* gives 0x39.
C6_AddressPins ==
    (last_call.name \in {"with_address_pins", "with_address_pins_async"}) =>
        /\ address = 54 + (IF last_call.args[1] THEN 1 ELSE 0)
                        + (IF last_call.args[2] THEN 2 ELSE 0)
        /\ (last_call.args = <<TRUE, TRUE>>) => address = 57

\* with_address_pins(true, true) called on a driver whose address was 0xFF
C6_Witness ==
    /\ last_call.name = "with_address_pins"
    /\ last_call.args = <<TRUE, TRUE>>
    /\ last_call.before = 255
    /\ address = 57

\* C7: the driver new returns has address 0x36, unit Fahrenheit, temperature
\* delay 125000 ns and moisture delay 5000000 ns, and new returns no error.
C7_NewDefaults ==
    (last_call.name = "new") =>
        /\ address = 54
        /\ unit = "Fahrenheit"
        /\ temp_delay = 125000
        /\ moisture_delay = 5000000
        /\ result.kind # "Err"
        /\ log = <<>>

\* the driver as new returned it
C7_Witness ==
    /\ last_call.name = "new"
    /\ address = 54 /\ unit = "Fahrenheit"
    /\ temp_delay = 125000 /\ moisture_delay = 5000000

\* C8: a temperature transaction writes [0x00, 0x04] and reads 4 bytes, a
\* moisture transaction writes [0x0F, 0x10] and reads 2 bytes, once each,
\* and every bus call goes to the configured address.
C8_RegistersAndAddress ==
    /\ Len(log) <= (IF op = "read" THEN 6 ELSE 3)
    /\ \A i \in 1..Len(log) :
        LET isTemp == op = "temperature" \/ (op = "read" /\ i <= 3)
        IN  /\ (log[i].call = "write") =>
                  /\ log[i].addr = address
                  /\ log[i].bytes = (IF isTemp THEN <<0, 4>> ELSE <<15, 16>>)
            /\ (log[i].call = "read") =>
                  /\ log[i].addr = address
                  /\ log[i].len = (IF isTemp THEN 4 ELSE 2)
                  /\ log[i].ok => Len(log[i].data) = log[i].len

\* a finished moisture() on a driver reconfigured to address 0
C8_Witness ==
    /\ op = "moisture" /\ pc = "idle" /\ address = 0
    /\ Len(log) = 3
    /\ log[1] = WriteCall(0, <<15, 16>>, TRUE)
    /\ log[3].call = "read" /\ log[3].addr = 0 /\ log[3].len = 2 /\ log[3].ok

\* C9: a successful moisture() returns b0 * 256 + b1 for the response
\* [b0, b1], a u16, whatever the unit; [0x03, 0xE8] gives 1000.
C9_MoistureValue ==
    (op = "moisture" /\ pc = "idle" /\ result.kind = "Ok") =>
        LET d == log[3].data
        IN  /\ result.value = d[1] * 256 + d[2]
            /\ result.value \in 0..65535
            /\ (d = <<3, 232>>) => result.value = 1000

\* moisture() answered [0x03, 0xE8] on a driver set to Celsius
C9_Witness ==
    /\ op = "moisture" /\ pc = "idle" /\ unit = "Celsius"
    /\ Len(log) = 3
    /\ log[3].data = <<3, 232>>
    /\ result = Ok(1000)

\* C10: after a successful temperature transaction the integer decoded from
\* the response [b0, b1, b2, b3] is its signed two's-complement big-endian
\* value (negative exactly when b0 >= 0x80), and the temperature is that
\* integer converted to f32 and scaled.
C10_SignedBigEndian ==
    (op \in {"temperature", "read"} /\ Len(log) >= 3 /\ log[3].ok) =>
        LET d  == log[3].data
            v  == (d[1] % 128) * 16777216 + d[2] * 65536 + d[3] * 256 + d[4]
                  - (IF d[1] >= 128 THEN 2147483647 ELSE 0)
                  - (IF d[1] >= 128 THEN 1 ELSE 0)
            tv == IF op = "read" THEN temp_value ELSE result.value
        IN  /\ raw = v
            /\ (raw < 0) <=> (d[1] >= 128)
            /\ tv = ConvertTemperature(unit, i32_as_f32(v))
            /\ (unit = "Celsius") => ((tv.m < 0) <=> (d[1] >= 128))

\* temperature() in Celsius answered FF FF D8 F0, which is -10000
C10_Witness ==
    /\ op = "temperature" /\ pc = "idle" /\ unit = "Celsius"
    /\ Len(log) = 3
    /\ log[3].data = <<255, 255, 216, 240>>
    /\ raw = -10000
    /\ result.kind = "Ok" /\ result.value.m < 0

\* C11: a successful temperature() answered 00 00 00 00 returns 0.0 when the
\* unit is Celsius and 32.0 when it is Fahrenheit.
C11_ZeroResponse ==
    (op = "temperature" /\ pc = "idle" /\ Len(log) = 3 /\ log[3].ok
       /\ log[3].data = <<0, 0, 0, 0>>) =>
        /\ (unit = "Celsius") => result = Ok([m |-> 0, e |-> 0])
        /\ (unit = "Fahrenheit") => result = Ok([m |-> 1, e |-> 5])

\* temperature() in Fahrenheit answered 00 00 00 00 and returned 32.0 = 1 * 2^5
C11_Witness ==
    /\ op = "temperature" /\ pc = "idle" /\ unit = "Fahrenheit"
    /\ Len(log) = 3
    /\ log[3].ok /\ log[3].data = <<0, 0, 0, 0>>
    /\ result = Ok([m |-> 1, e |-> 5])

\* C12: for every response, with raw the decoded integer cast to f32, the
\* Celsius result is raw * TEMP_C_CONSTANT, which is raw scaled by 2^-16
\* without rounding, and the Fahrenheit result equals, bit for bit, the
\* Celsius result times the f32 1.8 plus 32.0, each operation rounded to f32.
C12_UnitConsistency ==
    (op = "temperature" /\ pc = "idle" /\ result.kind = "Ok") =>
        LET rf      == i32_as_f32(i32_from_be_bytes(log[3].data))
            celsius == F32Norm(rf.m, rf.e - 16)
        IN  /\ (unit = "Celsius") => result.value = celsius
            /\ (unit = "Fahrenheit") =>
                  result.value = F32Add(F32Mul(celsius, F32_1_8), TEMP_F_CONSTANT_SUM)

\* temperature() in Fahrenheit answered 7F 01 27 01 (2130781953): the cast to
\* f32 and the product both round, and the result is 3747563 * 2^-6
C12_Witness ==
    /\ op = "temperature" /\ pc = "idle" /\ unit = "Fahrenheit"
    /\ Len(log) = 3
    /\ log[3].ok /\ log[3].data = <<127, 1, 39, 1>>
    /\ raw = 2130781953
    /\ result = Ok([m |-> 3747563, e |-> -6])

\* C13 as stated: every setter assigns only the fields it names, and of two
\* different setters only with_address and with_address_pins depend on the
\* order in which they are called.
C13_OnlyAddressPairOrdered ==
    (pc = "idle" /\ op = "none") =>
        \A a \in SetterCalls, b \in SetterCalls :
            (a.name # b.name /\ {a.name, b.name} # {"with_address", "with_address_pins"})
                => Commute(Config, a, b)

\* a step that is a setter call: the driver is free before and after it
C13_SetterStep ==
    (pc = "idle" /\ pc' = "idle") =>
        LET f == SetterFields(last_call'.name)
        IN  /\ f # {}
            /\ Config' = SetterApply(Config, last_call'.name, last_call'.args)
            /\ ("unit" \notin f) => unit' = unit
            /\ ("temp_delay" \notin f) => temp_delay' = temp_delay
            /\ ("moisture_delay" \notin f) => moisture_delay' = moisture_delay
            /\ ("address" \notin f) => address' = address

\* whether two different setters can be made to depend on their order
C13_OrderDependent(n1, n2) ==
    \E a \in SetterCalls, b \in SetterCalls :
        a.name = n1 /\ b.name = n2 /\ ~Commute(Config, a, b)

\* C13 (amended): every setter, blocking or async, assigns exactly the fields
\* it names, from its arguments alone, and leaves the others unchanged; two
\* setters that assign different fields commute; two different setters that
\* assign a common field are order-dependent: with_address and
\* with_address_pins, and with_delay with with_temperature_delay or with
\* with_moisture_delay.
C13_FrameAndCommute ==
    /\ [][C13_SetterStep]_vars
    /\ []((pc = "idle" /\ op = "none") =>
            /\ \A a \in SetterCalls, b \in SetterCalls :
                  (SetterFields(a.name) \cap SetterFields(b.name) = {})
                      => Commute(Config, a, b)
            /\ \A n1 \in { a.name : a \in SetterCalls }, n2 \in { a.name : a \in SetterCalls } :
                  (n1 # n2) =>
                      ((SetterFields(n1) \cap SetterFields(n2) # {})
                          <=> C13_OrderDependent(n1, n2)))

\* with_temperature_delay_async(7000) returned a driver whose other three
\* fields still hold what earlier setters gave them
C13_Witness ==
    /\ last_call.name = "with_temperature_delay_async"
    /\ last_call.args = <<7000>>
    /\ temp_delay = 7000
    /\ moisture_delay = 0
    /\ address = 255
    /\ unit = "Celsius"

\* C14: while an async operation is inside its settling delay, another task
\* of the same thread can take a step before the delay ends.
C14_DelayYields ==
    (mode = "async" /\ pc = "delaying" /\ other_steps < MaxOtherSteps)
        => ENABLED OtherTask

\* C15: a finished operation, blocking or async, has made the calls and
\* returned the result that the blocking code gives as a function of the
\* configuration and of what the bus did, so the two variants agree on the
\* same inputs; and an async setter leaves the configuration its blocking
\* twin leaves.
C15_VariantsAgree ==
    /\ []((pc = "idle" /\ op # "none") =>
            [calls |-> log, res |-> result] =
                (CASE op = "temperature" -> RefTemperature(Config, Outcome(1))
                   [] op = "moisture"    -> RefMoisture(Config, Outcome(1))
                   [] op = "read"        -> RefRead(Config, Outcome(1), Outcome(2))))
    /\ [][(pc = "idle" /\ pc' = "idle") =>
            Config' = SetterApply(Config, BaseName(last_call'.name), last_call'.args)]_vars

\* a read_async() on a reconfigured driver whose moisture bus read failed
C15_Witness ==
    /\ mode = "async" /\ op = "read" /\ pc = "idle"
    /\ address = 0 /\ unit = "Celsius" /\ temp_delay = 7000
    /\ Len(log) = 6
    /\ log[3].ok /\ ~log[6].ok
    /\ result = Err("ReadI2CError")

\* C16: an operation never repeats a call: temperature() and moisture() make
\* at most one bus write, one delay and one bus read, read() at most two of
\* each, and a failed bus call is the last call the operation makes.
C16_NoRetry ==
    LET count(kind) == Len(SelectSeq(log, LAMBDA c : c.call = kind))
        limit       == IF op = "read" THEN 2 ELSE 1
    IN  /\ count("write") <= limit
        /\ count("delay") <= limit
        /\ count("read") <= limit
        /\ \A i \in 1..Len(log) :
              (log[i].call \in {"write", "read"} /\ ~log[i].ok) =>
                  (i = Len(log) /\ pc = "idle" /\ result.kind = "Err")

\* a moisture() whose bus read failed after one write and one delay
C16_Witness ==
    /\ op = "moisture" /\ mode = "blocking" /\ pc = "idle"
    /\ Len(log) = 3
    /\ log[1].call = "write" /\ log[2].call = "delay"
    /\ log[3].call = "read" /\ ~log[3].ok
    /\ result.kind = "Err"

\* C17: an operation returns nothing while it runs and ends with a complete
\* value or an error: a value of temperature() / moisture() comes from one
\* successful write, the delay and one successful read; a Reading comes
\* from two such transactions and has both fields; a moisture transaction
\* that fails after a successful temperature transaction makes read()
\* return the moisture error, without the temperature already computed.
C17_NoPartialResult ==
    LET complete(b) ==
            /\ Len(log) >= b + 3
            /\ log[b + 1].call = "write" /\ log[b + 1].ok
            /\ log[b + 2].call = "delay"
            /\ log[b + 3].call = "read" /\ log[b + 3].ok
            /\ Len(log[b + 3].data) = log[b + 3].len
    IN  /\ (pc # "idle") => result = NoResult
        /\ (pc = "idle" /\ op # "none") => result.kind \in {"Ok", "Err"}
        /\ (result.kind = "Ok" /\ op \in {"temperature", "moisture"}) =>
              (Len(log) = 3 /\ complete(0))
        /\ (result.kind = "Ok" /\ op = "read") =>
              /\ Len(log) = 6 /\ complete(0) /\ complete(3)
              /\ DOMAIN result.value = {"temperature", "moisture"}
              /\ result.value.temperature # NoValue
              /\ result.value.temperature = temp_value
              /\ result.value.moisture \in 0..65535
        /\ (op = "read" /\ pc = "idle" /\ Len(log) >= 4
              /\ ~log[Len(log)].ok) =>
              /\ complete(0)
              /\ temp_value # NoValue
              /\ result = Err(IF log[Len(log)].call = "write"
                              THEN "WriteI2CError" ELSE "ReadI2CError")

\* a read() whose temperature succeeded and whose moisture write failed
C17_Witness ==
    /\ op = "read" /\ mode = "blocking" /\ pc = "idle"
    /\ Len(log) = 4
    /\ log[3].ok /\ log[4].call = "write" /\ ~log[4].ok
    /\ temp_value # NoValue
    /\ result = Err("WriteI2CError")

\* C18: no operation returns WriteReadI2CError; an error returned is
\* WriteI2CError or ReadI2CError.
C18_NoCompositeError ==
    (result.kind = "Err") =>
        /\ result.err # "WriteReadI2CError"
        /\ result.err \in {"WriteI2CError", "ReadI2CError"}
        /\ result.err \in SoilMoistureSensorError

\* a temperature_async() whose bus write failed
C18_Witness ==
    /\ op = "temperature" /\ mode = "async" /\ pc = "idle"
    /\ Len(log) = 1
    /\ ~log[1].ok
    /\ result = Err("WriteI2CError")

\* C19 as stated: the address is always a 7-bit device address, and after
\* with_address_pins it is one of 0x36 .. 0x39.
C19_SevenBitAddress ==
    /\ address \in 0..127
    /\ (BaseName(last_call.name) = "with_address_pins") => address \in 54..57

\* C19 (amended): the address is always a byte; after with_address it is the
\* byte given, 7-bit or not, after new it is 0x36 and after
\* with_address_pins it is one of 0x36 .. 0x39.
C19_AddressByte ==
    /\ address \in 0..255
    /\ (BaseName(last_call.name) = "with_address") => address = last_call.args[1]
    /\ (last_call.name = "new") => address = 54
    /\ (BaseName(last_call.name) = "with_address_pins") => address \in 54..57

\* with_address(0xFF) has stored an address that is not 7-bit
C19_Witness ==
    /\ last_call.name = "with_address"
    /\ last_call.args = <<255>>
    /\ address = 255

\* a step taken between the bus write of a transaction and the completion
\* of its bus read: the operation and the configuration stay, and the only
\* call that can be added is the delay or the bus read of that transaction
C20_InFlightStep ==
    (pc \in {"delay", "delaying", "read"}) =>
        /\ op' = op /\ mode' = mode /\ last_call' = last_call
        /\ Config' = Config
        /\ \/ log' = log
           \/ /\ pc = "delay"
              /\ log' = Append(log, DelayCall(delay_ns))
           \/ /\ pc = "read"
              /\ Len(log') = Len(log) + 1
              /\ SubSeq(log', 1, Len(log)) = log
              /\ log'[Len(log')].call = "read"
              /\ log'[Len(log')].addr = log[Len(log) - 1].addr
              /\ log'[Len(log')].len = buflen

\* C20: one transaction at a time: a public call only starts when no
\* transaction is in flight, the steps between a bus write and its bus read
\* add no other bus call, and so in the calls of the driver every write is
\* followed by its own read before the next write.
C20_OneTransactionInFlight ==
    /\ [][C20_InFlightStep]_vars
    /\ [][(last_call' # last_call) => pc = "idle"]_vars
    /\ [](\A i \in 1..Len(log), j \in 1..Len(log) :
             (i < j /\ log[i].call = "write" /\ log[j].call = "write") =>
                 /\ j >= i + 3
                 /\ log[i + 2].call = "read"
                 /\ log[i + 2].addr = log[i].addr)

\* a read_async() that finished both transactions while another task of the
\* thread took steps in between
C20_Witness ==
    /\ op = "read" /\ mode = "async" /\ pc = "idle"
    /\ other_steps = MaxOtherSteps
    /\ Len(log) = 6
    /\ log[1].call = "write" /\ log[3].call = "read" /\ log[3].ok
    /\ log[4].call = "write" /\ log[6].call = "read" /\ log[6].ok
    /\ result.kind = "Ok"

====
